---- MODULE Spec2Model ----
(***************************************************************************)
(* The runnable plugin suite of cairo-lang-runnable:                       *)
(*   - RunnablePlugin::generate_code, the syntax-level generator of the    *)
(*     __runnable_wrapper__ entry points, and                              *)
(*   - RawRunnableAnalyzer::diagnostics, the semantic check of every       *)
(*     #[runnable_raw] free function of a module.                          *)
(* Generated text is kept as a sequence of lines, each line a sequence of  *)
(* tokens (strings); whitespace is not modelled.                           *)
(***************************************************************************)
EXTENDS Integers, Sequences, FiniteSets, TLC

VARIABLES
    pc,        \* position of the host pipeline: "syntax", "generated", "compiled", "analyzed"
    item,      \* the module item handed to generate_code
    result,    \* the PluginResult of the latest generate_code call
    prev,      \* the PluginResult of the call before it (<<>> when there was none)
    module,    \* module_free_functions(module_id): the module's free functions, in order
    diags      \* the Vec<PluginDiagnostic> returned by the latest diagnostics call

vars == <<pc, item, result, prev, module, diags>>

----------------------------------------------------------------------------
(* Bounds of the explored inputs. *)

MaxParams == 3      \* longest parameter list
MaxGenerics == 1    \* longest generic-parameter list
MaxFuncs == 3       \* most free functions in a hand-written module

----------------------------------------------------------------------------
(* Program constants. *)

RUNNABLE_ATTR == "runnable"
RUNNABLE_RAW_ATTR == "runnable_raw"
RUNNABLE_PREFIX == "__runnable_wrapper__"
IMPLICIT_PRECEDENCE_ATTR == "implicit_precedence"

IMPLICIT_PRECEDENCE ==
    << "core::pedersen::Pedersen", "core::RangeCheck", "core::integer::Bitwise",
       "core::ec::EcOp", "core::poseidon::Poseidon", "core::circuit::RangeCheck96",
       "core::circuit::AddMod", "core::circuit::MulMod" >>

\* The messages of the diagnostics, without the backquotes of the source.
GenericParamsMsg == "Runnable functions cannot have generic params."
ReturnTypeMsg == "Invalid return type for #[runnable_raw] function, expected ()."
ParamCountMsg == "Invalid number of params for #[runnable_raw] function, expected 2."
FirstTypeMsg ==
    "Invalid first param type for #[runnable_raw] function, expected Span<felt252>."
FirstMutMsg ==
    "Invalid first param mutability for #[runnable_raw] function, got unexpected ref."
SecondTypeMsg ==
    "Invalid second param type for #[runnable_raw] function, expected Array<felt252>."
SecondMutMsg ==
    "Invalid second param mutability for #[runnable_raw] function, expected ref."

----------------------------------------------------------------------------
(* Syntax of the inputs of generate_code. *)

Names == {"add", "main"}
Modifiers == {"", "mut", "ref"}
TypeTexts == {"Span<felt252>", "Array<felt252>", "felt252"}
RetClauses == {"", "felt252"}          \* "" is OptionReturnTypeClause::Empty
AttrSets == SUBSET {RUNNABLE_ATTR, RUNNABLE_RAW_ATTR}

ParamSyntax == [modifier : Modifiers, ty : TypeTexts]

\* The parameter a list longer than two is extended with.
PadParam == [modifier |-> "", ty |-> "felt252"]

\* Every list of at most two parameters, and each two-parameter list extended
\* with PadParam up to MaxParams parameters.
ParamLists(forms, pad) ==
    UNION { [1..n -> forms] : n \in 0..2 }
      \cup { s \o [i \in 1..k |-> pad] : s \in [1..2 -> forms], k \in 1..(MaxParams - 2) }

FreeFunctionItems ==
    [ kind : {"FreeFunction"}, attrs : AttrSets, name : Names,
      generics : 0..MaxGenerics, params : ParamLists(ParamSyntax, PadParam),
      ret : RetClauses ]

OtherItems == [ kind : {"Struct", "ExternFunction"}, attrs : AttrSets, name : Names ]

Items == FreeFunctionItems \cup OtherItems

\* MacroPluginMetadata: the host's context of one generate_code call.
Metadatas == { [edition |-> "V2023_01"], [edition |-> "V2024_07"] }

----------------------------------------------------------------------------
(* RunnablePlugin::generate_code *)

has_attr(it, attr) == attr \in it.attrs

\* PluginResult::default()
DefaultResult == [code |-> <<>>, diagnostics |-> <<>>, remove_original_item |-> FALSE]

GenericParamsDiagnostic == [anchor |-> "generic_params", message |-> GenericParamsMsg]

\* "__param{RUNNABLE_PREFIX}{param_idx}"
ParamBinding(param_idx) == "__param" \o RUNNABLE_PREFIX \o ToString(param_idx)

\* #[implicit_precedence(...)]
ImplicitsPrecedenceLine ==
    <<"#[", IMPLICIT_PRECEDENCE_ATTR, "(">> \o IMPLICIT_PRECEDENCE \o <<")]">>

\* The interpolated header of the wrapper.
HeaderLines(name) ==
    << ImplicitsPrecedenceLine,
       <<"#[", RUNNABLE_RAW_ATTR, "]">>,
       << "fn", RUNNABLE_PREFIX \o name, "(",
          "mut", "input", ":", "Span<felt252>", ",",
          "ref", "output", ":", "Array<felt252>", ")", "{" >> >>

DeserializeLine(param_idx) ==
    << "let", ParamBinding(param_idx), "=", "Serde::deserialize", "(", "ref", "input", ")",
       ".expect", "(", "'Failed to deserialize param #" \o ToString(param_idx) \o "'", ")",
       ";" >>

AssertLine ==
    << "assert", "(", "core::array::SpanTrait::is_empty", "(", "input", ")", ",",
       "'Input too long for params.'", ")", ";" >>

CallOpenLine(name) == <<"let", "__result", "=", "@", name, "(">>

ArgLine(param_idx) == <<ParamBinding(param_idx), ",">>

CallCloseLine == <<")", ";">>

SerializeLine == <<"Serde::serialize", "(", "__result", ",", "ref", "output", ")", ";">>

CloseLine == <<"}">>

\* for (param_idx, param) in params.iter().enumerate(): one line per parameter
DeserializeLines(params) == [i \in 1..Len(params) |-> DeserializeLine(i - 1)]

\* The arguments emitted from the last parameter to the first.
ArgLines_Reversed(params) ==
    [i \in 1..Len(params) |-> ArgLine(Len(params) - i)]

ArgLines(params) == [i \in 1..Len(params) |-> ArgLine(i - 1)]

\* The text the PatchBuilder has accumulated at build().
Content(it) ==
    HeaderLines(it.name)
      \o DeserializeLines(it.params)
      \o <<AssertLine>>
      \o <<CallOpenLine(it.name)>>
      \o ArgLines(it.params)
      \o <<CallCloseLine>>
      \o <<SerializeLine>>
      \o <<CloseLine>>

\* The origins recorded by from_ast and mapped, in the order of emission: the
\* generated line and the node of the original item it points at.
CodeMappings(it) ==
    LET n == Len(it.params)
    IN  << [line |-> 3, origin |-> "name"] >>
          \o [i \in 1..n |-> [line |-> 3 + i, origin |-> "param" \o ToString(i - 1)]]
          \o << [line |-> n + 5, origin |-> "name"] >>
          \o [i \in 1..n |-> [line |-> n + 5 + i, origin |-> "param" \o ToString(i - 1)]]
          \o (IF it.ret # "" THEN << [line |-> 2 * n + 7, origin |-> "ret_ty"] >> ELSE <<>>)

\* generate_code without the return on a non-empty generic-parameter list.
generate_code_NoGenericsReturn(it, metadata) ==
    IF it.kind # "FreeFunction" THEN DefaultResult
    ELSE IF ~has_attr(it, RUNNABLE_ATTR) THEN DefaultResult
    ELSE [ code |-> << [ name |-> "runnable",
                         content |-> Content(it),
                         code_mappings |-> CodeMappings(it),
                         aux_data |-> <<>> ] >>,
           diagnostics |-> IF it.generics # 0 THEN <<GenericParamsDiagnostic>> ELSE <<>>,
           remove_original_item |-> FALSE ]

\* generate_code with the generic-parameter check ahead of the attribute check.
generate_code_GenericsFirst(it, metadata) ==
    IF it.kind # "FreeFunction" THEN DefaultResult
    ELSE IF it.generics # 0
      THEN [ code |-> <<>>,
             diagnostics |-> <<GenericParamsDiagnostic>>,
             remove_original_item |-> FALSE ]
    ELSE IF ~has_attr(it, RUNNABLE_ATTR) THEN DefaultResult
    ELSE [ code |-> << [ name |-> "runnable",
                         content |-> Content(it),
                         code_mappings |-> CodeMappings(it),
                         aux_data |-> <<>> ] >>,
           diagnostics |-> <<>>,
           remove_original_item |-> FALSE ]

\* generate_code naming the generated file after the edition of the metadata.
generate_code_UsesMetadata(it, metadata) ==
    IF it.kind # "FreeFunction" THEN DefaultResult
    ELSE IF ~has_attr(it, RUNNABLE_ATTR) THEN DefaultResult
    ELSE IF it.generics # 0
      THEN [ code |-> <<>>,
             diagnostics |-> <<GenericParamsDiagnostic>>,
             remove_original_item |-> FALSE ]
      ELSE [ code |-> << [ name |-> "runnable" \o metadata.edition,
                           content |-> Content(it),
                           code_mappings |-> CodeMappings(it),
                           aux_data |-> <<>> ] >>,
             diagnostics |-> <<>>,
             remove_original_item |-> FALSE ]

generate_code(it, metadata) ==
    IF it.kind # "FreeFunction" THEN DefaultResult
    ELSE IF ~has_attr(it, RUNNABLE_ATTR) THEN DefaultResult
    ELSE IF it.generics # 0
      THEN [ code |-> <<>>,
             diagnostics |-> <<GenericParamsDiagnostic>>,
             remove_original_item |-> FALSE ]
      ELSE [ code |-> << [ name |-> "runnable",
                           content |-> Content(it),
                           code_mappings |-> CodeMappings(it),
                           aux_data |-> <<>> ] >>,
             diagnostics |-> <<>>,
             remove_original_item |-> FALSE ]

----------------------------------------------------------------------------
(* Resolved signatures, the input of RawRunnableAnalyzer::diagnostics. *)

\* corelib::core_felt252_ty(db)
core_felt252_ty == [base |-> "core::felt252", args |-> <<>>]

\* corelib::unit_ty(db)
unit_ty == [base |-> "()", args |-> <<>>]

\* corelib::get_core_ty_by_name(db, "Span", [Type(felt252)])
core_span_felt252_ty == [base |-> "core::array::Span", args |-> <<core_felt252_ty>>]

\* corelib::core_array_felt252_ty(db)
core_array_felt252_ty == [base |-> "core::array::Array", args |-> <<core_felt252_ty>>]

TypeIds == {core_span_felt252_ty, core_array_felt252_ty, core_felt252_ty}
ReturnTypeIds == {unit_ty, core_felt252_ty}
Mutabilities == {"Immutable", "Mutable", "Reference"}

Param == [ty : TypeIds, mutability : Mutabilities]

PadSemanticParam == [ty |-> core_felt252_ty, mutability |-> "Immutable"]

\* db.free_function_signature(id): Err, or the resolved signature.
SignatureErr == [ok |-> FALSE]

Signatures ==
    [ ok : {TRUE}, params : ParamLists(Param, PadSemanticParam), return_type : ReturnTypeIds ]

Functions == [ attrs : SUBSET {RUNNABLE_RAW_ATTR}, signature : Signatures \cup {SignatureErr} ]

\* db.module_free_functions(module_id): Err, or the functions in their order.
ModuleErr == [ok |-> FALSE, functions |-> <<>>]

ModuleOf(fs) == [ok |-> TRUE, functions |-> fs]

Sig(params, ret) == [ok |-> TRUE, params |-> params, return_type |-> ret]

P(ty, mutability) == [ty |-> ty, mutability |-> mutability]

\* The functions the modules of several functions are made of: one that is not
\* marked, one whose signature does not resolve, a well-formed entry point, one with
\* three parameters and a return type, one with every parameter check violated, and
\* one with a single parameter.
RepFunctions ==
    { [ attrs |-> {},
        signature |-> Sig(<<P(core_felt252_ty, "Reference")>>, core_felt252_ty) ],
      [ attrs |-> {RUNNABLE_RAW_ATTR}, signature |-> SignatureErr ],
      [ attrs |-> {RUNNABLE_RAW_ATTR},
        signature |-> Sig(<< P(core_span_felt252_ty, "Mutable"),
                             P(core_array_felt252_ty, "Reference") >>, unit_ty) ],
      [ attrs |-> {RUNNABLE_RAW_ATTR},
        signature |-> Sig(<< P(core_felt252_ty, "Immutable"),
                             P(core_array_felt252_ty, "Reference"),
                             P(core_felt252_ty, "Immutable") >>, core_felt252_ty) ],
      [ attrs |-> {RUNNABLE_RAW_ATTR},
        signature |-> Sig(<< P(core_array_felt252_ty, "Reference"),
                             P(core_span_felt252_ty, "Immutable") >>, unit_ty) ],
      [ attrs |-> {RUNNABLE_RAW_ATTR},
        signature |-> Sig(<<P(core_span_felt252_ty, "Immutable")>>, unit_ty) ] }

\* The hand-written modules: every module of one function, and the modules of no
\* function or of two to MaxFuncs of the functions above; and the module whose
\* functions the database cannot list.
Modules ==
    { ModuleOf(<<f>>) : f \in Functions }
      \cup { ModuleOf(fs) : fs \in UNION { [1..n -> RepFunctions] : n \in {0} \cup 2..MaxFuncs } }
      \cup { ModuleErr }

----------------------------------------------------------------------------
(* RawRunnableAnalyzer::diagnostics *)

\* PluginDiagnostic::error(stable_ptr, message): the anchor is a node of the
\* function `id` of the module.
Error(id, node, message) == [anchor |-> [fn |-> id, node |-> node], message |-> message]

ReturnTypeCheck(id, signature) ==
    IF signature.return_type # unit_ty THEN <<Error(id, "ret_ty", ReturnTypeMsg)>> ELSE <<>>

FirstTypeCheck(id, input) ==
    IF input.ty # core_span_felt252_ty THEN <<Error(id, "param0", FirstTypeMsg)>> ELSE <<>>

\* The first parameter required to be immutable, so that `mut` is refused too.
FirstMutabilityCheck_NotImmutable(id, input) ==
    IF input.mutability # "Immutable" THEN <<Error(id, "param0", FirstMutMsg)>> ELSE <<>>

FirstMutabilityCheck(id, input) ==
    IF input.mutability = "Reference" THEN <<Error(id, "param0", FirstMutMsg)>> ELSE <<>>

SecondTypeCheck(id, output) ==
    IF output.ty # core_array_felt252_ty THEN <<Error(id, "param1", SecondTypeMsg)>> ELSE <<>>

SecondMutabilityCheck(id, output) ==
    IF output.mutability # "Reference" THEN <<Error(id, "param1", SecondMutMsg)>> ELSE <<>>

\* The parameter checks with the count check as "fewer than two": a longer list
\* has its first two parameters checked.
ParamChecks_AtLeastTwo(id, signature) ==
    IF Len(signature.params) < 2
      THEN <<Error(id, "parameters", ParamCountMsg)>>
      ELSE FirstTypeCheck(id, signature.params[1])
             \o FirstMutabilityCheck(id, signature.params[1])
             \o SecondTypeCheck(id, signature.params[2])
             \o SecondMutabilityCheck(id, signature.params[2])

\* The parameter checks with the mutability of a parameter checked only when its
\* type is right.
ParamChecks_ElseIf(id, signature) ==
    IF Len(signature.params) # 2
      THEN <<Error(id, "parameters", ParamCountMsg)>>
      ELSE (IF FirstTypeCheck(id, signature.params[1]) # <<>>
              THEN FirstTypeCheck(id, signature.params[1])
              ELSE FirstMutabilityCheck(id, signature.params[1]))
             \o (IF SecondTypeCheck(id, signature.params[2]) # <<>>
                   THEN SecondTypeCheck(id, signature.params[2])
                   ELSE SecondMutabilityCheck(id, signature.params[2]))

\* The parameter checks with the two checks of the first parameter merged into one
\* diagnostic.
ParamChecks_FirstMerged(id, signature) ==
    IF Len(signature.params) # 2
      THEN <<Error(id, "parameters", ParamCountMsg)>>
      ELSE (IF signature.params[1].ty # core_span_felt252_ty
                 \/ signature.params[1].mutability = "Reference"
              THEN <<Error(id, "param0", FirstTypeMsg)>> ELSE <<>>)
             \o SecondTypeCheck(id, signature.params[2])
             \o SecondMutabilityCheck(id, signature.params[2])

\* let [input, output] = &signature.params[..] else { push; continue }
ParamChecks(id, signature) ==
    IF Len(signature.params) # 2
      THEN <<Error(id, "parameters", ParamCountMsg)>>
      ELSE FirstTypeCheck(id, signature.params[1])
             \o FirstMutabilityCheck(id, signature.params[1])
             \o SecondTypeCheck(id, signature.params[2])
             \o SecondMutabilityCheck(id, signature.params[2])

\* One iteration with the count check ahead of the return-type check: the
\* `continue` of a wrong count skips the return type.
CheckFunction_CountFirst(id, f) ==
    IF ~has_attr(f, RUNNABLE_RAW_ATTR) THEN <<>>
    ELSE IF ~f.signature.ok THEN <<>>
    ELSE IF Len(f.signature.params) # 2 THEN ParamChecks(id, f.signature)
    ELSE ReturnTypeCheck(id, f.signature) \o ParamChecks(id, f.signature)

\* One iteration of the loop: what the function `id` adds to the diagnostics.
CheckFunction(id, f) ==
    IF ~has_attr(f, RUNNABLE_RAW_ATTR) THEN <<>>
    ELSE IF ~f.signature.ok THEN <<>>
    ELSE ReturnTypeCheck(id, f.signature) \o ParamChecks(id, f.signature)

\* The loop with `break` in the place of the two `continue` of a skipped function.
RECURSIVE CheckFrom_BreakOnSkip(_, _)
CheckFrom_BreakOnSkip(free_functions, id) ==
    IF id > Len(free_functions) THEN <<>>
    ELSE IF ~has_attr(free_functions[id], RUNNABLE_RAW_ATTR) THEN <<>>
    ELSE IF ~free_functions[id].signature.ok THEN <<>>
    ELSE CheckFunction(id, free_functions[id])
           \o CheckFrom_BreakOnSkip(free_functions, id + 1)

RECURSIVE CheckFrom(_, _)
\* for (id, item) in free_functions.iter(), from the function `id` on
CheckFrom(free_functions, id) ==
    IF id > Len(free_functions) THEN <<>>
    ELSE CheckFunction(id, free_functions[id]) \o CheckFrom(free_functions, id + 1)

diagnostics(m) ==
    IF ~m.ok THEN <<>> ELSE CheckFrom(m.functions, 1)

----------------------------------------------------------------------------
(* The host between the two plugins: the generated file is parsed, and the    *)
(* free functions of the module are resolved to their signatures.             *)

\* The position of the first token `tok` of a line (Len + 1 when there is none).
RECURSIVE Find(_, _, _)
Find(line, tok, from) ==
    IF from > Len(line) THEN from
    ELSE IF line[from] = tok THEN from
    ELSE Find(line, tok, from + 1)

\* One parameter: [modifier] name : type
ParseParam(toks) ==
    IF toks[1] \in {"mut", "ref"}
      THEN [modifier |-> toks[1], ty |-> toks[4]]
      ELSE [modifier |-> "", ty |-> toks[3]]

\* The comma-separated parameters between the parentheses.
RECURSIVE ParseParams(_)
ParseParams(toks) ==
    IF toks = <<>> THEN <<>>
    ELSE LET k == Find(toks, ",", 1)
         IN  <<ParseParam(SubSeq(toks, 1, k - 1))>>
               \o ParseParams(SubSeq(toks, k + 1, Len(toks)))

\* The free function a generated file declares: its attributes, its name, its
\* parameters and its return-type clause.
ParseFunction(content) ==
    LET decl == content[CHOOSE i \in 1..Len(content) : content[i][1] = "fn"]
        close == Find(decl, ")", 1)
    IN  [ kind |-> "FreeFunction",
          attrs |-> { content[i][2] : i \in { j \in 1..Len(content) : content[j][1] = "#[" } },
          name |-> decl[2],
          generics |-> 0,
          params |-> ParseParams(SubSeq(decl, 4, close - 1)),
          ret |-> IF decl[close + 1] = "->" THEN decl[close + 2] ELSE "" ]

\* The semantic type a type expression resolves to.
TypeOf(text) ==
    CASE text = "Span<felt252>" -> core_span_felt252_ty
      [] text = "Array<felt252>" -> core_array_felt252_ty
      [] text = "felt252" -> core_felt252_ty
      [] text = "()" -> unit_ty

\* The Mutability of a parameter's modifier.
MutabilityOf(modifier) ==
    CASE modifier = "ref" -> "Reference"
      [] modifier = "mut" -> "Mutable"
      [] modifier = "" -> "Immutable"

\* The signature of a free function; a missing return-type clause is the unit type.
Resolve(fn) ==
    [ ok |-> TRUE,
      params |-> [ i \in 1..Len(fn.params) |->
                     [ ty |-> TypeOf(fn.params[i].ty),
                       mutability |-> MutabilityOf(fn.params[i].modifier) ] ],
      return_type |-> IF fn.ret = "" THEN unit_ty ELSE TypeOf(fn.ret) ]

Lower(fn) == [attrs |-> fn.attrs, signature |-> Resolve(fn)]

\* The free functions of the module of one item: the item itself, when it is a
\* free function the plugin did not remove, then the function of the generated file.
CompiledModule(it, res) ==
    ModuleOf(
      (IF it.kind = "FreeFunction" /\ ~res.remove_original_item THEN <<Lower(it)>> ELSE <<>>)
        \o (IF res.code # <<>> THEN <<Lower(ParseFunction(res.code[1].content))>> ELSE <<>>))

----------------------------------------------------------------------------
(* The state machine. *)

NoItem == [kind |-> "None", attrs |-> {}, name |-> ""]

Init ==
    /\ prev = <<>>
    /\ result = <<>>
    /\ diags = <<>>
    /\ \/ /\ pc = "syntax"
          /\ item \in Items
          /\ module = ModuleOf(<<>>)
       \/ /\ pc = "compiled"
          /\ item = NoItem
          /\ module \in Modules

\* The host runs the macro plugin on the item, with some metadata; it may run it
\* again on the same item.
GenerateCode ==
    /\ pc \in {"syntax", "generated"}
    /\ \E metadata \in Metadatas : result' = <<generate_code(item, metadata)>>
    /\ prev' = result
    /\ pc' = "generated"
    /\ UNCHANGED <<item, module, diags>>

\* The host merges the generated file into the module and resolves it.
Compile ==
    /\ pc = "generated"
    /\ module' = CompiledModule(item, result[1])
    /\ pc' = "compiled"
    /\ UNCHANGED <<item, result, prev, diags>>

\* The host runs the analyzer plugin on the module.
Diagnostics ==
    /\ pc \in {"compiled", "analyzed"}
    /\ diags' = diagnostics(module)
    /\ pc' = "analyzed"
    /\ UNCHANGED <<item, result, prev, module>>

Next == GenerateCode \/ Compile \/ Diagnostics

Spec == Init /\ [][Next]_vars

----------------------------------------------------------------------------
(* Vocabulary of the properties. *)

\* generate_code has returned for the item.
Generated == result # <<>>

IsFreeFunction(it) == it.kind = "FreeFunction"

IsRunnable(it) == IsFreeFunction(it) /\ RUNNABLE_ATTR \in it.attrs

\* The analyzer has returned for a module whose functions the database lists.
Analyzed == pc = "analyzed" /\ module.ok

FunctionIds == 1..Len(module.functions)

\* The functions the analyzer checks: marked, with a signature that resolves.
Candidates ==
    { id \in FunctionIds :
        /\ RUNNABLE_RAW_ATTR \in module.functions[id].attrs
        /\ module.functions[id].signature.ok }

SignatureOf(id) == module.functions[id].signature

\* The diagnostics anchored in the function `id`, in the order of the result.
DiagsOf(id) == SelectSeq(diags, LAMBDA d : d.anchor.fn = id)

\* The diagnostics anchored at the node `node` of the function `id`.
DiagsAt(id, node) == SelectSeq(diags, LAMBDA d : d.anchor = [fn |-> id, node |-> node])

MessagesOf(ds) == [i \in 1..Len(ds) |-> ds[i].message]

\* How many diagnostics of the function `id` carry the message.
CountOf(id, message) ==
    Cardinality({ i \in 1..Len(diags) :
                    diags[i].anchor.fn = id /\ diags[i].message = message })

ParamMessages == {FirstTypeMsg, FirstMutMsg, SecondTypeMsg, SecondMutMsg}

\* The lines of a generated file between the declaration line and the closing brace.
BodyOf(content) ==
    SubSeq(content, (CHOOSE i \in 1..Len(content) : content[i][1] = "fn") + 1,
           Len(content) - 1)

\* The nodes of the original item the mappings of a generated file give for a line.
OriginsOf(file, line) ==
    { file.code_mappings[k].origin :
        k \in { m \in 1..Len(file.code_mappings) :
                  file.content[file.code_mappings[m].line] = line } }

IsDeserialize(line) ==
    /\ Len(line) = 13
    /\ SubSeq(line, 1, 1) = <<"let">>
    /\ SubSeq(line, 3, 8) = <<"=", "Serde::deserialize", "(", "ref", "input", ")">>

IsEmptyAssert(line) ==
    /\ line[1] = "assert"
    /\ SubSeq(line, 3, 6) = <<"core::array::SpanTrait::is_empty", "(", "input", ")">>

IsCallOf(line, name) == line = <<"let", "__result", "=", "@", name, "(">>

IsArgument(line) == Len(line) = 2 /\ line[2] = ","

IsSerialize(line) ==
    line = <<"Serde::serialize", "(", "__result", ",", "ref", "output", ")", ";">>

----------------------------------------------------------------------------
(* Properties of generate_code. *)

\* C1: a free function carrying `runnable` with a non-empty generic-parameter
\* list gets no generated file, exactly one diagnostic (generic params not allowed,
\* anchored at the generic-parameter list) and remove_original_item = false,
\* whatever its parameters and return type.
C1_GenericRejected ==
    (Generated /\ IsRunnable(item) /\ item.generics > 0) =>
        /\ result[1].code = <<>>
        /\ Len(result[1].diagnostics) = 1
        /\ result[1].diagnostics[1].anchor = "generic_params"
        /\ result[1].diagnostics[1].message
             = "Runnable functions cannot have generic params."
        /\ result[1].remove_original_item = FALSE

C1_Witness ==
    /\ Generated /\ IsRunnable(item) /\ item.generics > 0
    /\ Len(item.params) = 2 /\ item.ret # ""

\* C2: for a non-generic `runnable` function of N parameters the body of the
\* wrapper is N deserializations into the bindings of index 0..N-1, one assertion
\* that the input is empty, one call of the original function with the same N
\* bindings in the same order, and one serialization of the result; nothing else.
\* The i-th deserialization is mapped to the i-th declared parameter.
C2_BodyShape ==
    (Generated /\ IsRunnable(item) /\ item.generics = 0) =>
        /\ Len(result[1].code) = 1
        /\ LET body == BodyOf(result[1].code[1].content)
               N == Len(item.params)
           IN  /\ Len(body) = 2 * N + 4
               /\ \A i \in 1..N :
                    /\ IsDeserialize(body[i])
                    /\ body[i][2] = "__param__runnable_wrapper__" \o ToString(i - 1)
                    /\ OriginsOf(result[1].code[1], body[i]) = {"param" \o ToString(i - 1)}
               /\ \A i, j \in 1..N : i # j => body[i][2] # body[j][2]
               /\ IsEmptyAssert(body[N + 1])
               /\ IsCallOf(body[N + 2], item.name)
               /\ \A i \in 1..N :
                    /\ IsArgument(body[N + 2 + i])
                    /\ body[N + 2 + i][1] = body[i][2]
               /\ body[2 * N + 3] = <<")", ";">>
               /\ IsSerialize(body[2 * N + 4])

C2_Witness ==
    /\ Generated /\ IsRunnable(item) /\ item.generics = 0
    /\ Len(item.params) >= 2
    /\ Len(BodyOf(result[1].code[1].content)) = 2 * Len(item.params) + 4

\* The case of no parameter of C2: no deserialization, a call without argument.
C2_WitnessNoParams ==
    /\ Generated /\ IsRunnable(item) /\ item.generics = 0
    /\ item.params = <<>>
    /\ Len(BodyOf(result[1].code[1].content)) = 4

\* C7: generate_code does nothing on an item that is not a free function carrying
\* `runnable`: no generated file, no diagnostic, remove_original_item = false.
C7_SilentNoOp ==
    (Generated /\ ~IsRunnable(item)) =>
        /\ result[1].code = <<>>
        /\ result[1].diagnostics = <<>>
        /\ result[1].remove_original_item = FALSE

C7_Witness ==
    /\ Generated
    /\ IsFreeFunction(item)
    /\ item.attrs = {RUNNABLE_RAW_ATTR}
    /\ item.generics > 0

\* The case of an item that is no function of C7, carrying the attribute.
C7_WitnessOtherItem ==
    Generated /\ ~IsFreeFunction(item) /\ RUNNABLE_ATTR \in item.attrs

----------------------------------------------------------------------------
(* Properties of diagnostics. *)

\* C3: a marked function whose signature has a parameter count other than 2 gets
\* exactly one parameter-count diagnostic, anchored at its parameter list, and no
\* parameter-type or parameter-mutability diagnostic.
C3_CountOnly ==
    Analyzed =>
        \A id \in Candidates :
            Len(SignatureOf(id).params) # 2 =>
                /\ CountOf(id, ParamCountMsg) = 1
                /\ MessagesOf(DiagsAt(id, "parameters")) = <<ParamCountMsg>>
                /\ \A m \in ParamMessages : CountOf(id, m) = 0
                /\ DiagsAt(id, "param0") = <<>>
                /\ DiagsAt(id, "param1") = <<>>

C3_Witness ==
    /\ Analyzed
    /\ \E id \in Candidates :
         /\ Len(SignatureOf(id).params) = 3
         /\ SignatureOf(id).params[1].ty # core_span_felt252_ty
         /\ CountOf(id, ParamCountMsg) = 1

\* The case of no parameter of C3.
C3_WitnessNoParams ==
    /\ Analyzed
    /\ \E id \in Candidates :
         SignatureOf(id).params = <<>> /\ CountOf(id, ParamCountMsg) = 1

\* C4: a marked function whose signature resolves gets exactly one return-type
\* diagnostic when its return type is not the unit type and none when it is,
\* whether it has two parameters or not; the return-type diagnostic comes before
\* every other diagnostic of the function.
C4_ReturnType ==
    Analyzed =>
        \A id \in Candidates :
            /\ CountOf(id, ReturnTypeMsg)
                 = (IF SignatureOf(id).return_type = unit_ty THEN 0 ELSE 1)
            /\ SignatureOf(id).return_type # unit_ty =>
                 /\ DiagsOf(id)[1].message = ReturnTypeMsg
                 /\ DiagsOf(id)[1].anchor.node = "ret_ty"

C4_Witness ==
    /\ Analyzed
    /\ \E id \in Candidates :
         /\ SignatureOf(id).return_type # unit_ty
         /\ Len(SignatureOf(id).params) # 2
         /\ MessagesOf(DiagsOf(id)) = <<ReturnTypeMsg, ParamCountMsg>>

\* The case of two parameters of C4: the return-type diagnostic ahead of the four
\* parameter diagnostics.
C4_WitnessTwoParams ==
    /\ Analyzed
    /\ \E id \in Candidates :
         /\ SignatureOf(id).return_type # unit_ty
         /\ Len(SignatureOf(id).params) = 2
         /\ Len(DiagsOf(id)) = 5

\* The functions of C5: two parameters, the first of a wrong type and by reference.
FirstWrongAndRef ==
    { id \in Candidates :
        /\ Len(SignatureOf(id).params) = 2
        /\ SignatureOf(id).params[1].ty # core_span_felt252_ty
        /\ SignatureOf(id).params[1].mutability = "Reference" }

\* C5 as stated: such a function gets exactly two diagnostics, the first-parameter
\* type and the first-parameter mutability, both anchored at the first parameter.
C5_ExactlyTwoForFunction ==
    Analyzed =>
        \A id \in FirstWrongAndRef :
            /\ Len(DiagsOf(id)) = 2
            /\ MessagesOf(DiagsOf(id)) = <<FirstTypeMsg, FirstMutMsg>>
            /\ \A i \in 1..Len(DiagsOf(id)) : DiagsOf(id)[i].anchor.node = "param0"

\* C5 amended: such a function gets exactly two diagnostics anchored at its first
\* parameter, the type one then the mutability one; they are all its diagnostics
\* exactly when its second parameter is `ref Array<felt252>` and it returns unit.
C5_TwoAtFirstParam ==
    Analyzed =>
        \A id \in FirstWrongAndRef :
            /\ MessagesOf(DiagsAt(id, "param0")) = <<FirstTypeMsg, FirstMutMsg>>
            /\ Len(DiagsOf(id)) = 2
                 <=> /\ SignatureOf(id).params[2]
                          = [ty |-> core_array_felt252_ty, mutability |-> "Reference"]
                     /\ SignatureOf(id).return_type = unit_ty

C5_Witness ==
    /\ Analyzed
    /\ \E id \in FirstWrongAndRef :
         /\ SignatureOf(id).params[2].ty # core_array_felt252_ty
         /\ Len(DiagsAt(id, "param0")) = 2
         /\ Len(DiagsOf(id)) > 2

\* The diagnostics a function of two parameters must get for its parameters: each
\* of the four for its own violation, in the fixed order.
ExpectedParamDiags(id) ==
    LET input == SignatureOf(id).params[1]
        output == SignatureOf(id).params[2]
        one(cond, node, message) ==
            IF cond THEN <<[anchor |-> [fn |-> id, node |-> node], message |-> message]>>
            ELSE <<>>
    IN  one(input.ty # core_span_felt252_ty, "param0", FirstTypeMsg)
          \o one(input.mutability = "Reference", "param0", FirstMutMsg)
          \o one(output.ty # core_array_felt252_ty, "param1", SecondTypeMsg)
          \o one(output.mutability # "Reference", "param1", SecondMutMsg)

\* C6: for a marked function of two parameters each of the four parameter
\* diagnostics is emitted if and only if its own condition is violated, whatever
\* the three others and the return type, in the order first type, first
\* mutability, second type, second mutability.
C6_Independent ==
    Analyzed =>
        \A id \in Candidates :
            Len(SignatureOf(id).params) = 2 =>
                SelectSeq(DiagsOf(id), LAMBDA d : d.message # ReturnTypeMsg)
                    = ExpectedParamDiags(id)

C6_Witness ==
    /\ Analyzed
    /\ \E id \in Candidates :
         /\ Len(SignatureOf(id).params) = 2
         /\ SignatureOf(id).return_type # unit_ty
         /\ MessagesOf(DiagsOf(id))
              = <<ReturnTypeMsg, FirstTypeMsg, FirstMutMsg, SecondTypeMsg, SecondMutMsg>>

\* The case of a single violation of C6: the second parameter by value, alone.
C6_WitnessSingle ==
    /\ Analyzed
    /\ \E id \in Candidates : MessagesOf(DiagsOf(id)) = <<SecondMutMsg>>

\* What the function `id` of the module gets when it is the only function of a
\* module, anchored in `id`.
Alone(id) ==
    LET ds == diagnostics(ModuleOf(<<module.functions[id]>>))
    IN  [i \in 1..Len(ds) |-> [ds[i] EXCEPT !.anchor.fn = id]]

RECURSIVE AloneFrom(_)
AloneFrom(id) ==
    IF id > Len(module.functions) THEN <<>> ELSE Alone(id) \o AloneFrom(id + 1)

\* C8: the diagnostics of a module are, in the order of its functions, the
\* diagnostics each function gets alone; a function that is not marked, or whose
\* signature does not resolve, gets none, and the functions after it, or after one
\* with a wrong parameter count, are checked all the same.
C8_PerFunction ==
    Analyzed =>
        /\ diags = AloneFrom(1)
        /\ \A id \in FunctionIds \ Candidates : DiagsOf(id) = <<>>

C8_Witness ==
    /\ Analyzed
    /\ Len(module.functions) = 3
    /\ 1 \in Candidates /\ Len(SignatureOf(1).params) # 2
    /\ 2 \notin Candidates
    /\ 3 \in Candidates /\ Len(DiagsOf(3)) = 4

\* The case of C8 of an unresolved function ahead of a checked one.
C8_WitnessUnresolved ==
    /\ Analyzed
    /\ Len(module.functions) >= 2
    /\ RUNNABLE_RAW_ATTR \in module.functions[1].attrs
    /\ ~module.functions[1].signature.ok
    /\ DiagsOf(2) # <<>>

----------------------------------------------------------------------------
(* The two plugins together. *)

\* The wrapper is the last function of the module of a `runnable` function.
WrapperId == Len(module.functions)

\* C10: the wrapper of a non-generic `runnable` function carries `runnable_raw`,
\* has the two parameters `mut input: Span<felt252>` (by value) and
\* `ref output: Array<felt252>` (by reference) and no return-type clause, and the
\* analyzer has no diagnostic for it.
C10_WrapperAccepted ==
    (Analyzed /\ IsRunnable(item) /\ item.generics = 0) =>
        /\ Len(module.functions) = 2
        /\ RUNNABLE_RAW_ATTR \in module.functions[WrapperId].attrs
        /\ LET wrapper == ParseFunction(result[1].code[1].content)
           IN  /\ wrapper.name = "__runnable_wrapper__" \o item.name
               /\ wrapper.params = << [modifier |-> "mut", ty |-> "Span<felt252>"],
                                      [modifier |-> "ref", ty |-> "Array<felt252>"] >>
               /\ wrapper.ret = ""
        /\ SignatureOf(WrapperId)
             = [ ok |-> TRUE,
                 params |-> << [ty |-> core_span_felt252_ty, mutability |-> "Mutable"],
                               [ty |-> core_array_felt252_ty, mutability |-> "Reference"] >>,
                 return_type |-> unit_ty ]
        /\ DiagsOf(WrapperId) = <<>>

C10_Witness ==
    /\ Analyzed /\ IsRunnable(item) /\ item.generics = 0
    /\ Len(item.params) = 3 /\ item.ret # ""
    /\ WrapperId \in Candidates
    /\ DiagsOf(WrapperId) = <<>>

====
